---- MODULE Spec2Model ----
(***************************************************************************)
(* ScamCap browser extension: the heuristic URL risk scorer                *)
(* (analyzeUrlOffline of the extension's service worker, analyzeUrl of the *)
(* quick-scan route) and the scan orchestrator of the service worker       *)
(* (scan cache, stats, settings, badge, message protocol).                 *)
(*                                                                         *)
(* Strings are sequences of one-character strings, so that the regular     *)
(* expressions and string operations of the source are computed on the     *)
(* characters.  Risk scores are counted in hundredths: the weights         *)
(* 0.15, 0.3, 0.2, 0.25 are 15, 30, 20, 25 and the thresholds 0.3, 0.4,    *)
(* 0.5, 0.7, 1 are 30, 40, 50, 70, 100.  Every sum the scorers can form    *)
(* in IEEE doubles compares with each of these thresholds exactly as the   *)
(* sum of hundredths does.                                                 *)
(***************************************************************************)
EXTENDS Integers, Sequences, FiniteSets, TLC

VARIABLES
    probe,          \* scorer under test: the URL drawn and the assessment returned
    apiConfigured,  \* whether API_BASE_URL is set (null = offline mode)
    scanCache,      \* Map: URL string -> cached scan result
    stats,          \* { threatsBlocked, pagesScanned, mfaTriggered }
    settings,       \* { enabled, mfaEnabled, riskThreshold, notificationsEnabled }
    storage,        \* chrome.storage.local: the persisted stats and settings
    loadResult,     \* the result the start-up chrome.storage.local.get delivers
    tabUrl,         \* browser: the URL each tab shows
    activeTab,      \* browser: the active tab of the current window
    badge,          \* chrome.action: badge text, colour and title of each tab
    scans,          \* the scanPage invocations in flight, one per slot
    reply,          \* the latest sendResponse: the message and the response
    lastRun,        \* the latest step of a scanPage invocation
    notifCount,     \* number of chrome.notifications.create calls
    scanCount,      \* number of scanPage invocations so far
    clock,          \* the time new Date() reads
    page            \* content script: the document of each tab that is tracked

vars == <<probe, apiConfigured, scanCache, stats, settings, storage, loadResult,
          tabUrl, activeTab, badge, scans, reply, lastRun, notifCount,
          scanCount, clock, page>>

orchVars == <<apiConfigured, scanCache, stats, settings, storage, loadResult,
              tabUrl, activeTab, badge, scans, reply, lastRun, notifCount,
              scanCount, clock, page>>

----------------------------------------------------------------------------
(* Strings and regular expressions                                         *)

UpperChars == <<"A", "B", "C", "D", "E", "F", "G", "H", "I", "J", "K", "L", "M", "N", "O", "P", "Q", "R", "S", "T", "U", "V", "W", "X", "Y", "Z">>

LowerChars == <<"a", "b", "c", "d", "e", "f", "g", "h", "i", "j", "k", "l", "m", "n", "o", "p", "q", "r", "s", "t", "u", "v", "w", "x", "y", "z">>

Digits == {"0", "1", "2", "3", "4", "5", "6", "7", "8", "9"}

\* Case folding of the i flag.
Fold(c) ==
    IF \E n \in 1..Len(UpperChars) : UpperChars[n] = c
    THEN LowerChars[CHOOSE n \in 1..Len(UpperChars) : UpperChars[n] = c]
    ELSE c

\* An atom of a pattern: a character class repeated lo..hi times.
Atom(cs, lo, hi) == [cs |-> cs, lo |-> lo, hi |-> hi]

\* The pattern matching the literal text s.
Lit(s) == [n \in 1..Len(s) |-> Atom({s[n]}, 1, 1)]

AtomAccepts(a, c, ignoreCase) ==
    IF ignoreCase THEN Fold(c) \in {Fold(x) : x \in a.cs} ELSE c \in a.cs

\* The positions at which a match of atoms k.. of pattern p that starts at
\* position i of u can end (the position after the last character matched).
RECURSIVE Ends(_, _, _, _, _)
Ends(u, i, p, k, ignoreCase) ==
    IF k > Len(p) THEN {i}
    ELSE LET a == p[k]
             fits(n) == /\ i + n - 1 <= Len(u)
                        /\ \A m \in i..(i + n - 1) : AtomAccepts(a, u[m], ignoreCase)
         IN  UNION { Ends(u, i + n, p, k + 1, ignoreCase) :
                        n \in {x \in a.lo..a.hi : fits(x)} }

\* A regular expression: alternative patterns, the i flag, a trailing $.
Regex(alts, ignoreCase, atEnd) ==
    [alts |-> alts, ignoreCase |-> ignoreCase, atEnd |-> atEnd]

MatchEnds(re, u, i) ==
    { e \in UNION { Ends(u, i, p, 1, re.ignoreCase) : p \in re.alts } :
        re.atEnd => e = Len(u) + 1 }

\* RegExp.prototype.test on a fresh regular expression.
RegexTest(re, u) == \E i \in 1..(Len(u) + 1) : MatchEnds(re, u, i) # {}

SetMin(S) == CHOOSE x \in S : \A y \in S : x <= y

SetMax(S) == CHOOSE x \in S : \A y \in S : x >= y

\* String.prototype.replace(re, ''): the first (leftmost) match is removed.
ReplaceFirstWithEmpty(re, u) ==
    LET starts == {i \in 1..(Len(u) + 1) : MatchEnds(re, u, i) # {}}
    IN  IF starts = {} THEN u
        ELSE LET i == SetMin(starts)
                 e == SetMax(MatchEnds(re, u, i))
             IN  SubSeq(u, 1, i - 1) \o SubSeq(u, e, Len(u))

\* String.prototype.split(c)[0]: the text before the first c.
SplitFirst(u, c) ==
    LET at == {i \in 1..Len(u) : u[i] = c}
    IN  IF at = {} THEN u ELSE SubSeq(u, 1, SetMin(at) - 1)

\* String.prototype.split(c).length
SplitLength(u, c) == Cardinality({i \in 1..Len(u) : u[i] = c}) + 1

\* String.prototype.startsWith
StartsWith(u, prefix) ==
    Len(u) >= Len(prefix) /\ SubSeq(u, 1, Len(prefix)) = prefix

----------------------------------------------------------------------------
(* The risk scorers                                                        *)

KeywordWeight == 15

IpWeight == 30

SubdomainWeight == 20

TldWeight == 25

MaxScore == 100

MediumScore == 30

HighScore == 50

CriticalScore == 70

UnsafeScore == 50

MaxSubdomains == 2

Keyword(s) == Regex({Lit(s)}, TRUE, FALSE)

\* suspiciousPatterns of analyzeUrlOffline
suspiciousPatterns ==
    << Keyword(<<"l", "o", "g", "i", "n">>), Keyword(<<"v", "e", "r", "i", "f", "y">>), Keyword(<<"a", "c", "c", "o", "u", "n", "t">>),
       Keyword(<<"s", "e", "c", "u", "r", "e">>), Keyword(<<"u", "p", "d", "a", "t", "e">>), Keyword(<<"c", "o", "n", "f", "i", "r", "m">>),
       Keyword(<<"b", "a", "n", "k", "i", "n", "g">>), Keyword(<<"p", "a", "y", "p", "a", "l">>), Keyword(<<"p", "a", "s", "s", "w", "o", "r", "d">>),
       Keyword(<<"s", "i", "g", "n", "i", "n">>) >>

\* suspiciousPatterns of the quick-scan route, each with its source text
routePatterns ==
    << [re |-> Keyword(<<"l", "o", "g", "i", "n">>),   text |-> "/login/i"],
       [re |-> Keyword(<<"v", "e", "r", "i", "f", "y">>),  text |-> "/verify/i"],
       [re |-> Keyword(<<"a", "c", "c", "o", "u", "n", "t">>), text |-> "/account/i"],
       [re |-> Keyword(<<"s", "e", "c", "u", "r", "e">>),  text |-> "/secure/i"],
       [re |-> Keyword(<<"u", "p", "d", "a", "t", "e">>),  text |-> "/update/i"],
       [re |-> Keyword(<<"c", "o", "n", "f", "i", "r", "m">>), text |-> "/confirm/i"],
       [re |-> Keyword(<<"b", "a", "n", "k", "i", "n", "g">>), text |-> "/banking/i"],
       [re |-> Keyword(<<"p", "a", "y", "p", "a", "l">>),  text |-> "/paypal/i"],
       [re |-> Regex({Lit(<<"-">>)}, FALSE, FALSE), text |-> "/-/g"] >>

\* /\d{1,3}\.\d{1,3}\.\d{1,3}\.\d{1,3}/
ipPattern ==
    Regex({ << Atom(Digits, 1, 3), Atom({"."}, 1, 1), Atom(Digits, 1, 3),
               Atom({"."}, 1, 1), Atom(Digits, 1, 3), Atom({"."}, 1, 1),
               Atom(Digits, 1, 3) >> }, FALSE, FALSE)

\* /https?:\/\//
schemePattern ==
    Regex({ Lit(<<"h", "t", "t", "p">>) \o << Atom({"s"}, 0, 1) >> \o Lit(<<":", "/", "/">>) },
          FALSE, FALSE)

\* /\.(tk|ml|ga|cf|gq)$/i
tldPattern ==
    Regex({ Lit(<<".", "t", "k">>), Lit(<<".", "m", "l">>), Lit(<<".", "g", "a">>), Lit(<<".", "c", "f">>),
            Lit(<<".", "g", "q">>) }, TRUE, TRUE)

\* A count of all the labels of the host.
labelsOf(url) ==
    SplitLength(SplitFirst(ReplaceFirstWithEmpty(schemePattern, url), "/"), ".")

\* url.replace(/https?:\/\//, '').split('/')[0].split('.').length - 2
subdomainsOf(url) ==
    SplitLength(SplitFirst(ReplaceFirstWithEmpty(schemePattern, url), "/"), ".") - 2

\* A check that adds its weight without pushing an indicator.
FireSilently(acc, fires, weight, text) ==
    IF fires
    THEN [riskScore |-> acc.riskScore + weight, indicators |-> acc.indicators]
    ELSE acc

\* One check of the scorer: when it fires, add the weight and push the text.
Fire(acc, fires, weight, text) ==
    IF fires
    THEN [riskScore |-> acc.riskScore + weight,
          indicators |-> Append(acc.indicators, text)]
    ELSE acc

\* A keyword check that adds its weight once, however many patterns match.
offlineKeywordsOnce(url, k, acc) ==
    Fire(acc,
         \E n \in k..Len(suspiciousPatterns) : RegexTest(suspiciousPatterns[n], url),
         KeywordWeight, "Suspicious keyword detected")

\* suspiciousPatterns.forEach of analyzeUrlOffline, from pattern k on
RECURSIVE offlineKeywords(_, _, _)
offlineKeywords(url, k, acc) ==
    IF k > Len(suspiciousPatterns) THEN acc
    ELSE offlineKeywords(url, k + 1,
            Fire(acc, RegexTest(suspiciousPatterns[k], url), KeywordWeight,
                 "Suspicious keyword detected"))

\* suspiciousPatterns.forEach of the route's analyzeUrl, from pattern k on
RECURSIVE routeKeywords(_, _, _)
routeKeywords(url, k, acc) ==
    IF k > Len(routePatterns) THEN acc
    ELSE routeKeywords(url, k + 1,
            Fire(acc, RegexTest(routePatterns[k].re, url), KeywordWeight,
                 "Suspicious pattern detected: " \o routePatterns[k].text))

\* A scorer that returns the sum as it is.
unclampedScore(riskScore) == riskScore

\* Math.min(riskScore, 1)
clampScore(riskScore) == IF riskScore < MaxScore THEN riskScore ELSE MaxScore

\* A scorer for which a score at the unsafe threshold is still safe.
isSafeAtThreshold(riskScore) == riskScore <= UnsafeScore

\* is_safe: riskScore < 0.5
isSafe(riskScore) == riskScore < UnsafeScore

\* A level mapping whose thresholds are exclusive.
riskLevelAbove(riskScore) ==
    IF riskScore > 70 THEN "critical"
    ELSE IF riskScore > 50 THEN "high"
    ELSE IF riskScore > 30 THEN "medium"
    ELSE "low"

\* let riskLevel = 'low'; if (riskScore >= 0.7) ... else if ... else if ...
riskLevelOf(riskScore) ==
    IF riskScore >= CriticalScore THEN "critical"
    ELSE IF riskScore >= HighScore THEN "high"
    ELSE IF riskScore >= MediumScore THEN "medium"
    ELSE "low"

\* A scorer that returns the pushed indicators as they are.
indicatorsAsIs(indicators) == indicators

\* indicators.length > 0 ? indicators : ['No immediate threats detected']
indicatorsOrDefault(indicators) ==
    IF Len(indicators) > 0 THEN indicators
    ELSE << "No immediate threats detected" >>

\* analyzeUrlOffline(url) of the service worker; now is what new Date() reads.
analyzeUrlOffline(url, now) ==
    LET a0 == [riskScore |-> 0, indicators |-> << >>]
        a1 == offlineKeywords(url, 1, a0)
        a2 == Fire(a1, RegexTest(ipPattern, url), IpWeight,
                   "URL uses IP address instead of domain name")
        a3 == Fire(a2, subdomainsOf(url) > MaxSubdomains, SubdomainWeight,
                   "Excessive subdomains detected")
        a4 == Fire(a3, RegexTest(tldPattern, url), TldWeight,
                   "Suspicious top-level domain")
        riskScore == clampScore(a4.riskScore)
    IN  [url |-> url,
         is_safe |-> isSafe(riskScore),
         risk_score |-> riskScore,
         risk_level |-> riskLevelOf(riskScore),
         indicators |-> indicatorsOrDefault(a4.indicators),
         timestamp |-> now,
         source |-> "offline"]

\* analyzeUrl(url) of the quick-scan route
analyzeUrl(url, now) ==
    LET a0 == [riskScore |-> 0, indicators |-> << >>]
        a1 == routeKeywords(url, 1, a0)
        a2 == Fire(a1, RegexTest(ipPattern, url), IpWeight,
                   "URL uses IP address instead of domain name")
        a3 == Fire(a2, subdomainsOf(url) > MaxSubdomains, SubdomainWeight,
                   "Excessive subdomains detected")
        riskScore == clampScore(a3.riskScore)
    IN  [url |-> url,
         is_safe |-> isSafe(riskScore),
         risk_score |-> riskScore,
         risk_level |-> riskLevelOf(riskScore),
         indicators |-> indicatorsOrDefault(a3.indicators),
         timestamp |-> now]

----------------------------------------------------------------------------
(* The URLs drawn                                                          *)

Schemes ==
    { <<"h", "t", "t", "p", "s", ":", "/", "/">>, <<"h", "t", "t", "p", ":", "/", "/">>, <<"H", "T", "T", "P", "S", ":", "/", "/">>, <<"c", "h", "r", "o", "m", "e", ":", "/", "/">>,
      <<"c", "h", "r", "o", "m", "e", "-", "e", "x", "t", "e", "n", "s", "i", "o", "n", ":", "/", "/">>, <<"a", "b", "o", "u", "t", ":">>, <<"e", "d", "g", "e", ":", "/", "/">>, << >> }

Hosts ==
    { <<"e", "x", "a", "m", "p", "l", "e", ".", "c", "o", "m">>, <<"s", "e", "c", "u", "r", "e", "-", "l", "o", "g", "i", "n", "-", "u", "p", "d", "a", "t", "e", ".", "t", "k">>, <<"1", "9", "2", ".", "1", "6", "8", ".", "0", ".", "1">>,
      <<"a", ".", "b", ".", "c", ".", "d", ".", "e", "x", "a", "m", "p", "l", "e", ".", "c", "o", "m">>, <<"P", "a", "y", "P", "a", "l", ".", "c", "o", "m", ".", "v", "e", "r", "i", "f", "y", "-", "a", "c", "c", "o", "u", "n", "t", ".", "M", "L">>,
      <<"s", "e", "t", "t", "i", "n", "g", "s">>, <<"s", "h", "o", "p", ".", "e", "x", "a", "m", "p", "l", "e", ".", "g", "a">> }

Tails ==
    { << >>, <<"/">>, <<"/", "l", "o", "g", "i", "n">>, <<":", "8", "0", "8", "0", "/", "a", "?", "i", "p", "=", "1", "0", ".", "0", ".", "0", ".", "1">>,
      <<"/", "s", "i", "g", "n", "i", "n", "?", "p", "a", "s", "s", "w", "o", "r", "d", "=", "c", "o", "n", "f", "i", "r", "m", "&", "b", "a", "n", "k", "i", "n", "g", "=", "u", "p", "d", "a", "t", "e">>,
      <<"/", "l", "o", "g", "i", "n", "-", "v", "e", "r", "i", "f", "y", "-", "a", "c", "c", "o", "u", "n", "t", "-", "s", "e", "c", "u", "r", "e", "-", "u", "p", "d", "a", "t", "e", "-", "c", "o", "n", "f", "i", "r", "m", "-", "b", "a", "n", "k", "i", "n", "g", "-", "p", "a", "y", "p", "a", "l", "-", "p", "a", "s", "s", "w", "o", "r", "d">> }

\* Every URL string the scorers are applied to.
Urls == { s \o h \o t : s \in Schemes, h \in Hosts, t \in Tails }

\* Two of them
SecureLoginUpdateTk == <<"h", "t", "t", "p", "s", ":", "/", "/", "s", "e", "c", "u", "r", "e", "-", "l", "o", "g", "i", "n", "-", "u", "p", "d", "a", "t", "e", ".", "t", "k">>

IpLoginUrl == <<"h", "t", "t", "p", ":", "/", "/", "1", "9", "2", ".", "1", "6", "8", ".", "0", ".", "1", "/", "l", "o", "g", "i", "n">>

ExampleCom == <<"h", "t", "t", "p", "s", ":", "/", "/", "e", "x", "a", "m", "p", "l", "e", ".", "c", "o", "m">>
----------------------------------------------------------------------------
(* JavaScript values                                                       *)

\* An object is a record of its properties; null, undefined and the falsy
\* primitives (false, 0, '') are records with the single field js.
JsNull == [js |-> "null"]

JsUndefined == [js |-> "undefined"]

JsFalse == [js |-> "false"]

IsObject(v) == "js" \notin DOMAIN v

\* Reading a property of null or undefined throws a TypeError.
IsNullish(v) == ~IsObject(v) /\ v.js \in {"null", "undefined"}

\* if (v) for the values above: objects are truthy, the others falsy.
Truthy(v) == IsObject(v)

Has(v, f) == IsObject(v) /\ f \in DOMAIN v

\* A test that takes every result for unsafe.
AlwaysUnsafe(result) == TRUE

\* !result.is_safe
NotSafe(result) == ~(Has(result, "is_safe") /\ result.is_safe)

\* A comparison against settings.riskThreshold in place of the literal.
ScoreAtLeastThreshold(result, t) ==
    Has(result, "risk_score") /\ result.risk_score >= settings.riskThreshold

\* result.risk_score >= t (false when risk_score is undefined)
ScoreAtLeast(result, t) == Has(result, "risk_score") /\ result.risk_score >= t

\* Map.prototype.get
MapGet(m, k) == IF k \in DOMAIN m THEN m[k] ELSE JsUndefined

\* Map.prototype.set, and a property write on a plain object
MapSet(m, k, v) == [x \in DOMAIN m \cup {k} |-> IF x = k THEN v ELSE m[x]]

\* A merge in which the fields already set win over the ones provided.
SpreadKeepsFirst(a, b) ==
    [k \in DOMAIN a \cup DOMAIN b |-> IF k \in DOMAIN a THEN a[k] ELSE b[k]]

\* { ...a, ...b }
Spread(a, b) ==
    [k \in DOMAIN a \cup DOMAIN b |-> IF k \in DOMAIN b THEN b[k] ELSE a[k]]

----------------------------------------------------------------------------
(* The browser and the orchestrator's state                                *)

NumTabs == 2

\* A tab id no tab has (chrome.tabs.get sets lastError for it).
ClosedTab == 9

\* ANALYZE_CURRENT_PAGE sent without a tab id
NoTabId == 0

SafeUrl == <<"h", "t", "t", "p", "s", ":", "/", "/", "e", "x", "a", "m", "p", "l", "e", ".", "c", "o", "m", "/", "a">>

\* SafeUrl with a trailing slash, in another case, with a query
SlashUrl == <<"h", "t", "t", "p", "s", ":", "/", "/", "e", "x", "a", "m", "p", "l", "e", ".", "c", "o", "m", "/", "a", "/">>

CaseUrl == <<"h", "t", "t", "p", "s", ":", "/", "/", "e", "x", "a", "m", "p", "l", "e", ".", "c", "o", "m", "/", "A">>

\* The query holds an IPv4 address and a keyword: a safe assessment of 0.45.
QueryUrl == <<"h", "t", "t", "p", "s", ":", "/", "/", "e", "x", "a", "m", "p", "l", "e", ".", "c", "o", "m", "/", "a", "?", "n", "e", "x", "t", "=", "1", "0", ".", "0", ".", "0", ".", "1", "/", "l", "o", "g", "i", "n">>

HighUrl == <<"h", "t", "t", "p", ":", "/", "/", "1", "9", "2", ".", "1", "6", "8", ".", "0", ".", "1", "/", "l", "o", "g", "i", "n", "-", "v", "e", "r", "i", "f", "y">>

InternalUrl == <<"c", "h", "r", "o", "m", "e", ":", "/", "/", "s", "e", "t", "t", "i", "n", "g", "s", "/", "p", "a", "s", "s", "w", "o", "r", "d", "s">>

\* The URLs the browser's tabs show.
TabUrls == {SafeUrl, SlashUrl, CaseUrl, QueryUrl, HighUrl, InternalUrl}

MaxScans == 2

MaxInflight == 2

Idle == [pc |-> "idle"]

NoReply == [msg |-> [type |-> "none"], resp |-> [success |-> FALSE]]

NoRun == [tab |-> 0, url |-> << >>, via |-> "none", path |-> "none"]

NoBadge ==
    [text |-> "", color |-> "default",
     title |-> [head |-> "default", level |-> "", percent |-> 0]]

defaultStats == [threatsBlocked |-> 0, pagesScanned |-> 0, mfaTriggered |-> 0]

ThresholdDefault == 70

defaultSettings ==
    [enabled |-> TRUE, mfaEnabled |-> FALSE, riskThreshold |-> ThresholdDefault,
     notificationsEnabled |-> TRUE]

\* What chrome.storage.local may hold when the service worker starts.
InitialStores ==
    { << >>,
      [stats |-> [threatsBlocked |-> 1, pagesScanned |-> 2, mfaTriggered |-> 0],
       settings |-> [defaultSettings EXCEPT !.enabled = FALSE]] }

WarnScore == 40

\* The assessments of the tab URLs, computed once.
offlineScores == [u \in TabUrls |-> analyzeUrlOffline(u, 0)]

routeScores == [u \in TabUrls |-> analyzeUrl(u, 0)]

offlineResult(url, now) == [offlineScores[url] EXCEPT !.timestamp = now]

routeResult(url, now) == [routeScores[url] EXCEPT !.timestamp = now]

\* The bodies a 2xx response of the remote endpoint may carry, as
\* response.json() returns them.
ResponseBodies(url, now) ==
    { routeResult(url, now), [error |-> "Internal server error"], JsNull, JsFalse }

shouldScanUrl(url) ==
    /\ Len(url) > 0
    /\ ~StartsWith(url, <<"c", "h", "r", "o", "m", "e", ":", "/", "/">>)
    /\ ~StartsWith(url, <<"a", "b", "o", "u", "t", ":">>)
    /\ ~StartsWith(url, <<"c", "h", "r", "o", "m", "e", "-", "e", "x", "t", "e", "n", "s", "i", "o", "n", ":", "/", "/">>)
    /\ ~StartsWith(url, <<"e", "d", "g", "e", ":", "/", "/">>)

Letters == {UpperChars[n] : n \in 1..Len(UpperChars)} \cup
           {LowerChars[n] : n \in 1..Len(LowerChars)}

\* new URL(url) succeeds when url starts with a scheme.
urlParses(url) ==
    MatchEnds(Regex({ << Atom(Letters, 1, 1),
                         Atom(Letters \cup Digits \cup {"+", "-", "."}, 0, Len(url)),
                         Atom({":"}, 1, 1) >> }, FALSE, FALSE), url, 1) # {}

tabUrlParses == [u \in TabUrls |-> urlParses(u)]

errorResult == [is_safe |-> TRUE, risk_score |-> 0, risk_level |-> "ERROR"]

\* Math.round(result.risk_score * 100), -1 for NaN
percentOf(result) == IF Has(result, "risk_score") THEN result.risk_score ELSE -1

\* updateBadge(tabId, result): the badge text, colour and title it sets
updateBadge(result) ==
    LET shown == IF NotSafe(result)
                 THEN IF ScoreAtLeast(result, CriticalScore)
                      THEN [text |-> "!!!", color |-> "#F44336"]
                      ELSE IF ScoreAtLeast(result, WarnScore)
                           THEN [text |-> "!", color |-> "#FF9800"]
                           ELSE [text |-> "", color |-> "#4CAF50"]
                 ELSE [text |-> "check", color |-> "#4CAF50"]
        title == IF NotSafe(result)
                 THEN [head |-> "Risk",
                       level |-> IF Has(result, "risk_level")
                                 THEN result.risk_level ELSE "undefined",
                       percent |-> percentOf(result)]
                 ELSE [head |-> "Safe", level |-> "", percent |-> percentOf(result)]
    IN  [text |-> shown.text, color |-> shown.color, title |-> title]

----------------------------------------------------------------------------
(* The popup                                                               *)

\* Math.round((result.risk_score || 0) * 100)
riskScorePercent(result) == IF Has(result, "risk_score") THEN result.risk_score ELSE 0

\* The first bucket of the popup that reads the score: 0-40% is SAFE.
BucketMedium == 40

\* displayResult(result) of extension/popup/popup.js: the class and text of
\* the risk-level element (without its icon), the status text, and whether
\* the threat details are shown.
displayResult(result) ==
    LET level == IF Has(result, "risk_level") THEN result.risk_level ELSE "undefined"
        riskLevel ==
            IF level = "CRITICAL"
            THEN [class |-> "critical", text |-> "CRITICAL THREAT"]
            ELSE IF level = "HIGH" THEN [class |-> "high", text |-> "HIGH RISK"]
            ELSE IF level = "MEDIUM" THEN [class |-> "medium", text |-> "MEDIUM RISK"]
            ELSE IF level = "LOW" THEN [class |-> "low", text |-> "LOW RISK"]
            ELSE [class |-> "safe", text |-> "SAFE"]
    IN  [score |-> riskScorePercent(result),
         riskLevel |-> riskLevel,
         status |-> IF NotSafe(result) THEN "Threat Detected" ELSE "Protected",
         details |-> NotSafe(result) /\ Has(result, "indicators")
                     /\ Len(result.indicators) > 0]

\* displayResult(result) of the popup shipped in frontend/public/extension,
\* which reads the score alone.
displayResultBuckets(result) ==
    LET percent == riskScorePercent(result)
        riskLevel ==
            IF percent >= CriticalScore THEN [class |-> "danger", text |-> "DANGER"]
            ELSE IF percent >= BucketMedium
            THEN [class |-> "medium", text |-> "MEDIUM"]
            ELSE [class |-> "safe", text |-> "SAFE"]
    IN  [score |-> percent,
         riskLevel |-> riskLevel,
         status |-> IF percent >= BucketMedium THEN "Threat Detected"
                    ELSE "Protected",
         details |-> percent >= BucketMedium /\ Has(result, "indicators")
                     /\ Len(result.indicators) > 0]
----------------------------------------------------------------------------
(* The content script of a tab                                             *)

MaxWarnings == 2

\* A document: whether document.body exists, the warning elements created in
\* it (score of the result shown, whether a DOMContentLoaded listener still
\* waits to insert it, its hide timer) and the elements with id
\* 'scamcap-page-warning' that are in the document, in document order.
LoadedPage == [body |-> TRUE, elems |-> << >>, dom |-> << >>]

LoadingPage == [body |-> FALSE, elems |-> << >>, dom |-> << >>]

InDom(pg, e) == \E n \in 1..Len(pg.dom) : pg.dom[n] = e

Without(seq, e) == SelectSeq(seq, LAMBDA x : x # e)

\* showPageWarning(result) of the content script
showPageWarning(pg, result) ==
    IF ~Truthy(result) \/ ~Has(result, "risk_score")
    THEN pg
    ELSE LET \* document.getElementById finds the first element in the document
             kept == IF Len(pg.dom) > 0 THEN Tail(pg.dom) ELSE pg.dom
             e == Len(pg.elems) + 1
             el == [score |-> result.risk_score,
                    deferred |-> ~pg.body,
                    timer |-> IF result.risk_score < CriticalScore
                              THEN "armed" ELSE "none"]
         IN  [body |-> pg.body,
              elems |-> Append(pg.elems, el),
              dom |-> IF pg.body THEN << e >> \o kept ELSE kept]

\* The response of the content script's onMessage listener
contentResponse(msg) ==
    IF "type" \in DOMAIN msg /\ msg.type = "SHOW_WARNING"
    THEN [success |-> TRUE]
    ELSE [success |-> FALSE, error |-> "Unknown message type"]

\* The document after the content script's onMessage listener ran
contentHandled(pg, msg) ==
    IF "type" \in DOMAIN msg /\ msg.type = "SHOW_WARNING" /\ "result" \in DOMAIN msg
    THEN showPageWarning(pg, msg.result)
    ELSE pg

\* The DOMContentLoaded listeners of showPageWarning, in the order they were
\* added, from element e on: each inserts its warning before the first child.
RECURSIVE insertDeferred(_, _)
insertDeferred(pg, e) ==
    IF e > Len(pg.elems) THEN pg
    ELSE insertDeferred(
            IF pg.elems[e].deferred
            THEN [pg EXCEPT !.elems[e].deferred = FALSE, !.dom = << e >> \o @]
            ELSE pg,
            e + 1)

----------------------------------------------------------------------------
(* scanPage                                                                *)

TabIds == DOMAIN tabUrl

Slots == DOMAIN scans

FreeSlots == {s \in Slots : scans[s].pc = "idle"}

Event == [type |-> "event"]

\* A scanPage whose .then() never calls sendResponse.
answerNothing(origin, url, cache) == NoReply

\* The sendResponse of the .then() that ANALYZE_CURRENT_PAGE and MANUAL_SCAN
\* chain to scanPage; cache is the scan cache when scanPage resolves.
answerScan(origin, url, cache) ==
    IF origin.type = "MANUAL_SCAN"
    THEN [msg |-> origin, resp |-> [success |-> TRUE]]
    ELSE IF origin.type = "ANALYZE_CURRENT_PAGE"
    THEN [msg |-> origin,
          resp |-> [success |-> TRUE,
                    data |-> IF Truthy(MapGet(cache, url))
                             THEN MapGet(cache, url)
                             ELSE [risk_score |-> 0, is_phishing |-> FALSE]]]
    ELSE NoReply

\* A cache in which the first result written for a URL stays.
cacheFirstResult(cache, url, result) ==
    IF url \in DOMAIN cache THEN cache ELSE MapSet(cache, url, result)

\* A cache that drops a trailing slash from its keys.
cacheNormalized(cache, url, result) ==
    MapSet(cache,
           IF Len(url) > 0 /\ url[Len(url)] = "/"
           THEN SubSeq(url, 1, Len(url) - 1) ELSE url,
           result)

\* scanCache.set(url, result)
cacheResult(cache, url, result) == MapSet(cache, url, result)

\* A scanPage that counts the threats and not the pages.
settleCountingThreatsOnly(tabId, url, result) ==
    LET updated == IF NotSafe(result)
                   THEN [stats EXCEPT !.threatsBlocked = @ + 1]
                   ELSE stats
    IN  [stats |-> updated,
         storage |-> MapSet(storage, "stats", updated),
         scanCache |-> MapSet(scanCache, url, result),
         badge |-> [badge EXCEPT ![tabId] = updateBadge(result)],
         notifCount |-> notifCount,
         path |-> "scored"]

\* scanPage from "Update stats" up to its next await or its end, for the
\* result obtained: the new stats, storage, cache, badges and notification
\* count, and where scanPage goes on (path).
settle(tabId, url, result) ==
    LET counted == [stats EXCEPT !.pagesScanned = @ + 1]
        failed == [badge EXCEPT ![tabId] = updateBadge(errorResult)]
    IN  IF IsNullish(result)
        THEN \* result.is_safe throws: catch (error)
             [stats |-> counted, storage |-> storage, scanCache |-> scanCache,
              badge |-> failed, notifCount |-> notifCount, path |-> "error"]
        ELSE LET updated == IF NotSafe(result)
                            THEN [counted EXCEPT !.threatsBlocked = @ + 1]
                            ELSE counted
                 warn == NotSafe(result) /\ ScoreAtLeast(result, WarnScore)
                 \* new URL(url) of showNotification throws: catch (error)
                 throws == warn /\ ~tabUrlParses[url]
             IN  [stats |-> updated,
                  storage |-> MapSet(storage, "stats", updated),
                  scanCache |-> cacheResult(scanCache, url, result),
                  badge |-> IF throws THEN failed
                            ELSE [badge EXCEPT ![tabId] = updateBadge(result)],
                  notifCount |-> IF warn /\ ~throws THEN notifCount + 1
                                 ELSE notifCount,
                  path |-> IF throws THEN "error"
                           ELSE IF warn THEN "send" ELSE "scored"]

\* A scanPage that writes the cache and the badge and counts nothing.
SettledBeforeCounting(s, tabId, url, origin, via, result) ==
    /\ scanCache' = MapSet(scanCache, url, result)
    /\ badge' = [badge EXCEPT ![tabId] = updateBadge(result)]
    /\ lastRun' = [tab |-> tabId, url |-> url, via |-> via, path |-> "scored"]
    /\ scans' = [scans EXCEPT ![s] = Idle]
    /\ reply' = NoReply
    /\ UNCHANGED <<stats, storage, notifCount>>

\* The state after scanPage ran settle in slot s.
Settled(s, tabId, url, origin, via, result) ==
    LET out == settle(tabId, url, result)
    IN  /\ stats' = out.stats
        /\ storage' = out.storage
        /\ scanCache' = out.scanCache
        /\ badge' = out.badge
        /\ notifCount' = out.notifCount
        /\ lastRun' = [tab |-> tabId, url |-> url, via |-> via, path |-> out.path]
        /\ IF out.path = "send"
           THEN /\ scans' = [scans EXCEPT ![s] =
                                [pc |-> "send", tabId |-> tabId, url |-> url,
                                 origin |-> origin, result |-> result]]
                /\ reply' = NoReply
           ELSE /\ scans' = [scans EXCEPT ![s] = Idle]
                /\ reply' = answerScan(origin, url, out.scanCache)

\* A scanPage that caches the result of its error badge when it fails.
FailedCachingError(s, tabId, url, origin, via) ==
    /\ badge' = [badge EXCEPT ![tabId] = updateBadge(errorResult)]
    /\ lastRun' = [tab |-> tabId, url |-> url, via |-> via, path |-> "error"]
    /\ scans' = [scans EXCEPT ![s] = Idle]
    /\ scanCache' = cacheResult(scanCache, url, errorResult)
    /\ reply' = answerScan(origin, url, scanCache')
    /\ UNCHANGED <<stats, storage, notifCount>>

\* scanPage ends in catch (error) before any result was used.
Failed(s, tabId, url, origin, via) ==
    /\ badge' = [badge EXCEPT ![tabId] = updateBadge(errorResult)]
    /\ lastRun' = [tab |-> tabId, url |-> url, via |-> via, path |-> "error"]
    /\ scans' = [scans EXCEPT ![s] = Idle]
    /\ reply' = answerScan(origin, url, scanCache)
    /\ UNCHANGED <<stats, storage, scanCache, notifCount>>

\* A scanPage that scores the URL whether or not protection is enabled.
scanPageAlways(w, tabId, url, origin) ==
    /\ scanCount < MaxScans
    /\ scanCount' = scanCount + 1
    /\ FreeSlots # {}
    /\ Settled(SetMin(FreeSlots), tabId, url, origin, "offline",
               offlineResult(url, clock))

\* scanPage(tabId, url) up to its first await (or its end); w is the service
\* worker ("backend" or "public"), origin the message to answer at its end.
scanPage(w, tabId, url, origin) ==
    /\ scanCount < MaxScans
    /\ scanCount' = scanCount + 1
    /\ IF ~settings.enabled
       THEN /\ lastRun' = [tab |-> tabId, url |-> url, via |-> "none",
                           path |-> "skipped"]
            /\ reply' = answerScan(origin, url, scanCache)
            /\ UNCHANGED <<stats, storage, scanCache, badge, notifCount, scans>>
       ELSE /\ FreeSlots # {}
            /\ LET s == SetMin(FreeSlots)
               IN  IF w = "public" \/ apiConfigured
                   THEN /\ scans' = [scans EXCEPT ![s] =
                                        [pc |-> "fetch", tabId |-> tabId,
                                         url |-> url, origin |-> origin]]
                        /\ lastRun' = [tab |-> tabId, url |-> url,
                                       via |-> "none", path |-> "fetch"]
                        /\ reply' = NoReply
                        /\ UNCHANGED <<stats, storage, scanCache, badge,
                                       notifCount>>
                   ELSE Settled(s, tabId, url, origin, "offline",
                                offlineResult(url, clock))

FetchFailures == {"timeout", "network", "status"}

\* A worker whose scanPage has no local scorer to fall back to.
noOfflineFallback(w) == FALSE

\* Whether scanPage of worker w scores the URL with analyzeUrlOffline when
\* the remote call fails: the backend worker does, the public one has no
\* local scorer.
hasOfflineFallback(w) == w = "backend"

\* The fetch of scanPage settles: the timer aborts it, it throws, a response
\* with a non-2xx status arrives, or a response with a 2xx status arrives.
FetchSettled(w, s) ==
    /\ scans[s].pc = "fetch"
    /\ \E outcome \in FetchFailures \cup {"ok"} :
          LET run == scans[s]
          IN  IF outcome = "ok"
              THEN /\ scans' = [scans EXCEPT ![s].pc = "json"]
                   /\ lastRun' = [tab |-> run.tabId, url |-> run.url,
                                  via |-> "ok", path |-> "json"]
                   /\ reply' = NoReply
                   /\ UNCHANGED <<stats, storage, scanCache, badge, notifCount>>
              ELSE IF hasOfflineFallback(w)
              THEN Settled(s, run.tabId, run.url, run.origin, outcome,
                           offlineResult(run.url, clock))
              ELSE Failed(s, run.tabId, run.url, run.origin, outcome)
    /\ UNCHANGED <<probe, apiConfigured, settings, loadResult, tabUrl,
                   activeTab, scanCount, clock, page>>

\* What a body is: an assessment, an object without is_safe and risk_score,
\* null, or a falsy primitive.
bodyKind(body) ==
    IF ~IsObject(body) THEN body.js
    ELSE IF Has(body, "is_safe") /\ Has(body, "risk_score") THEN "assessment"
    ELSE "object"

\* response.json() settles: it rejects (the body is not JSON) or yields the body.
JsonSettled(w, s) ==
    /\ scans[s].pc = "json"
    /\ LET run == scans[s]
       IN  \/ IF hasOfflineFallback(w)
              THEN Settled(s, run.tabId, run.url, run.origin, "unparseable",
                           offlineResult(run.url, clock))
              ELSE Failed(s, run.tabId, run.url, run.origin, "unparseable")
           \/ \E body \in ResponseBodies(run.url, clock) :
                 Settled(s, run.tabId, run.url, run.origin, bodyKind(body), body)
    /\ UNCHANGED <<probe, apiConfigured, settings, loadResult, tabUrl,
                   activeTab, scanCount, clock, page>>

\* A scanPage whose sendMessage is not in a try of its own: a rejection
\* reaches catch (error), which sets the error badge.
SendSettledUncaught(s) ==
    /\ scans[s].pc = "send"
    /\ \E delivered \in BOOLEAN :
          LET run == scans[s]
              msg == [type |-> "SHOW_WARNING", result |-> run.result]
          IN  /\ lastRun' = [tab |-> run.tabId, url |-> run.url,
                             via |-> IF delivered THEN "delivered"
                                     ELSE "undelivered",
                             path |-> IF delivered THEN "done" ELSE "error"]
              /\ reply' = answerScan(run.origin, run.url, scanCache)
              /\ scans' = [scans EXCEPT ![s] = Idle]
              /\ badge' = IF delivered THEN badge
                          ELSE [badge EXCEPT ![run.tabId] = updateBadge(errorResult)]
              /\ page' = IF delivered /\ run.tabId \in DOMAIN page
                         THEN [page EXCEPT ![run.tabId] = contentHandled(@, msg)]
                         ELSE page
              /\ delivered /\ run.tabId \in DOMAIN page
                    => Len(page[run.tabId].elems) < MaxWarnings
    /\ UNCHANGED <<probe, apiConfigured, scanCache, stats, settings, storage,
                   loadResult, tabUrl, activeTab, notifCount, scanCount, clock>>

\* chrome.tabs.sendMessage(SHOW_WARNING) settles: the tab's content script
\* handled the message, or there was none to receive it (caught).
SendSettled(s) ==
    /\ scans[s].pc = "send"
    /\ \E delivered \in BOOLEAN :
          LET run == scans[s]
              msg == [type |-> "SHOW_WARNING", result |-> run.result]
          IN  /\ lastRun' = [tab |-> run.tabId, url |-> run.url,
                             via |-> IF delivered THEN "delivered"
                                     ELSE "undelivered",
                             path |-> "done"]
              /\ reply' = answerScan(run.origin, run.url, scanCache)
              /\ scans' = [scans EXCEPT ![s] = Idle]
              /\ page' = IF delivered /\ run.tabId \in DOMAIN page
                         THEN [page EXCEPT ![run.tabId] = contentHandled(@, msg)]
                         ELSE page
              /\ delivered /\ run.tabId \in DOMAIN page
                    => Len(page[run.tabId].elems) < MaxWarnings
    /\ UNCHANGED <<probe, apiConfigured, scanCache, stats, settings, storage,
                   loadResult, tabUrl, activeTab, badge, notifCount,
                   scanCount, clock>>

----------------------------------------------------------------------------
(* Listeners of the service worker                                         *)

\* The callback of chrome.storage.local.get(['stats', 'settings']).
StorageLoaded ==
    /\ loadResult.pending
    /\ loadResult' = [pending |-> FALSE, result |-> << >>]
    /\ stats' = IF "stats" \in DOMAIN loadResult.result
                THEN loadResult.result.stats ELSE stats
    /\ settings' = IF "settings" \in DOMAIN loadResult.result
                   THEN Spread(settings, loadResult.result.settings)
                   ELSE settings
    /\ reply' = NoReply
    /\ lastRun' = NoRun
    /\ UNCHANGED <<probe, apiConfigured, scanCache, storage, tabUrl, activeTab,
                   badge, scans, notifCount, scanCount, clock, page>>

\* Nothing of the scan state changes and nothing is answered.
NoScan ==
    /\ reply' = NoReply
    /\ lastRun' = NoRun
    /\ UNCHANGED <<scanCache, stats, storage, badge, scans, notifCount,
                   scanCount>>

\* chrome.tabs.onUpdated with status 'complete': tab t has loaded url.
OnUpdated(w, t, url) ==
    /\ tabUrl' = [tabUrl EXCEPT ![t] = url]
    /\ IF shouldScanUrl(url) THEN scanPage(w, t, url, Event) ELSE NoScan
    /\ UNCHANGED <<probe, apiConfigured, settings, loadResult, activeTab,
                   clock, page>>

\* chrome.tabs.onActivated: tab t became active; chrome.tabs.get yields it.
OnActivated(w, t) ==
    /\ activeTab' = t
    /\ IF shouldScanUrl(tabUrl[t]) THEN scanPage(w, t, tabUrl[t], Event)
       ELSE NoScan
    /\ UNCHANGED <<probe, apiConfigured, settings, loadResult, tabUrl,
                   clock, page>>

\* A branch of the onMessage listener that answers at once and changes
\* nothing else.
Respond(msg, resp) ==
    /\ reply' = [msg |-> msg, resp |-> resp]
    /\ lastRun' = NoRun
    /\ UNCHANGED <<probe, apiConfigured, scanCache, stats, settings, storage,
                   loadResult, tabUrl, activeTab, badge, scans, notifCount,
                   scanCount, clock, page>>

\* A handler that never finds the URL in the cache.
alwaysScanning(cache, url) == [success |-> FALSE, message |-> "Scanning..."]

\* The response to GET_SCAN_RESULT
scanResultResponse(cache, url) ==
    IF Truthy(MapGet(cache, url))
    THEN [success |-> TRUE, result |-> MapGet(cache, url)]
    ELSE [success |-> FALSE, message |-> "Scanning..."]

GetScanResult(url) ==
    LET msg == [type |-> "GET_SCAN_RESULT", url |-> url]
    IN  Respond(msg, scanResultResponse(scanCache, msg.url))

GetStats == Respond([type |-> "GET_STATS"], [success |-> TRUE, stats |-> stats])

GetSettings == Respond([type |-> "GET_SETTINGS"], settings)

\* The settings payloads SAVE_SETTINGS is sent with.
SettingsPayloads == { [enabled |-> FALSE], [enabled |-> TRUE] }

SaveSettings(payload) ==
    LET msg == [type |-> "SAVE_SETTINGS", settings |-> payload]
    IN  /\ settings' = Spread(settings, msg.settings)
        /\ storage' = MapSet(storage, "settings", settings')
        /\ reply' = [msg |-> msg, resp |-> [success |-> TRUE]]
        /\ lastRun' = NoRun
        /\ UNCHANGED <<probe, apiConfigured, scanCache, stats, loadResult,
                       tabUrl, activeTab, badge, scans, notifCount, scanCount,
                       clock, page>>

\* SAVE_SETTINGS without a settings property
SaveNoSettings == Respond([type |-> "SAVE_SETTINGS"], [success |-> TRUE])

\* Messages whose type no branch of the listener handles.
OtherMessages == { [type |-> "PING"], [data |-> "x"] }

HandledTypes ==
    {"GET_SCAN_RESULT", "GET_STATS", "GET_SETTINGS", "SAVE_SETTINGS",
     "ANALYZE_CURRENT_PAGE", "MANUAL_SCAN"}

\* A listener that acknowledges the messages it does not handle.
UnknownMessageAccepted(msg) ==
    /\ ~("type" \in DOMAIN msg /\ msg.type \in HandledTypes)
    /\ Respond(msg, [success |-> TRUE])

\* The end of the onMessage listener, reached when no branch returned
UnknownMessage(msg) ==
    /\ ~("type" \in DOMAIN msg /\ msg.type \in HandledTypes)
    /\ Respond(msg, [success |-> FALSE, error |-> "Unknown message type"])

\* ANALYZE_CURRENT_PAGE with the callback of its chrome.tabs.get.  Between
\* the listener and the callback the handler holds nothing but the message,
\* and the callback reads the tab and the cache as they are when it runs, so
\* the two are one step.
AnalyzeCurrentPage(w, tabId) ==
    LET msg == [type |-> "ANALYZE_CURRENT_PAGE", tabId |-> tabId]
    IN  IF msg.tabId = NoTabId
        THEN Respond(msg, [success |-> FALSE, error |-> "No tab ID provided"])
        ELSE IF msg.tabId \notin TabIds
        THEN \* chrome.runtime.lastError
             Respond(msg, [success |-> FALSE, error |-> "No tab with id"])
        ELSE IF Truthy(MapGet(scanCache, tabUrl[msg.tabId]))
        THEN Respond(msg, [success |-> TRUE,
                           data |-> MapGet(scanCache, tabUrl[msg.tabId])])
        ELSE /\ scanPage(w, msg.tabId, tabUrl[msg.tabId], msg)
             /\ UNCHANGED <<probe, apiConfigured, settings, loadResult, tabUrl,
                            activeTab, clock, page>>

QueryOutcomes == {"error", "none", "tab"}

\* MANUAL_SCAN with the callback of its chrome.tabs.query({active: true,
\* currentWindow: true}), one step for the same reason.
ManualScan(w) ==
    LET msg == [type |-> "MANUAL_SCAN"]
    IN  \E outcome \in QueryOutcomes :
           IF outcome = "error"
           THEN Respond(msg, [success |-> FALSE, error |-> "lastError"])
           ELSE IF outcome = "none"
           THEN Respond(msg, [success |-> FALSE, error |-> "No active tab"])
           ELSE /\ scanPage(w, activeTab, tabUrl[activeTab], msg)
                /\ UNCHANGED <<probe, apiConfigured, settings, loadResult,
                               tabUrl, activeTab, clock, page>>

----------------------------------------------------------------------------
(* Listeners and events of the content script                              *)

pageFrame ==
    UNCHANGED <<probe, apiConfigured, scanCache, stats, settings, storage,
                loadResult, tabUrl, activeTab, badge, scans, notifCount,
                scanCount, clock>>

\* Messages sent to the content script by others than scanPage.
ContentMessages ==
    { [type |-> "PING"], [data |-> "x"], [type |-> "SHOW_WARNING"],
      [type |-> "GET_STATS"],
      [type |-> "SHOW_WARNING",
       result |-> [is_safe |-> FALSE, risk_score |-> 85,
                   risk_level |-> "critical"]] }

\* The onMessage listener of the content script of tab t.
ContentMessage(t, msg) ==
    /\ "result" \in DOMAIN msg => Len(page[t].elems) < MaxWarnings
    /\ page' = [page EXCEPT ![t] = contentHandled(@, msg)]
    /\ reply' = [msg |-> msg, resp |-> contentResponse(msg), from |-> "content"]
    /\ lastRun' = NoRun
    /\ pageFrame

\* The tab starts to load a document: a new content script, no body yet.
PageLoading(t) ==
    /\ page[t] # LoadingPage
    /\ page' = [page EXCEPT ![t] = LoadingPage]
    /\ reply' = NoReply
    /\ lastRun' = NoRun
    /\ pageFrame

\* DOMContentLoaded: the body exists and the deferred insertions run.
DomContentLoaded(t) ==
    /\ ~page[t].body
    /\ page' = [page EXCEPT ![t] = insertDeferred([@ EXCEPT !.body = TRUE], 1)]
    /\ reply' = NoReply
    /\ lastRun' = NoRun
    /\ pageFrame

\* The 10 s timer of warning e fires: a warning still in the document fades
\* and a 500 ms timer is set.
HideTimer(t, e) ==
    /\ page[t].elems[e].timer = "armed"
    /\ page' = [page EXCEPT ![t].elems[e].timer =
                   IF InDom(page[t], e) THEN "fading" ELSE "none"]
    /\ reply' = NoReply
    /\ lastRun' = NoRun
    /\ pageFrame

\* The 500 ms timer of warning e fires: a warning still in the document is
\* removed.
FadeTimer(t, e) ==
    /\ page[t].elems[e].timer = "fading"
    /\ page' = [page EXCEPT ![t].elems[e].timer = "none",
                            ![t].dom = Without(@, e)]
    /\ reply' = NoReply
    /\ lastRun' = NoRun
    /\ pageFrame

\* closeBtn.onclick of warning e
CloseClick(t, e) ==
    /\ InDom(page[t], e)
    /\ page' = [page EXCEPT ![t].dom = Without(@, e)]
    /\ reply' = NoReply
    /\ lastRun' = NoRun
    /\ pageFrame

----------------------------------------------------------------------------
(* Specifications                                                          *)

NoProbe == [fn |-> "none", url |-> << >>]

\* The worker starts: API_BASE_URL set or null, what storage holds, the tabs
\* (each on an internal page), the scanPage invocations that may be in
\* flight at once, and the tabs whose document is tracked.
OrchestratorInit(configured, stores, numTabs, numSlots, numPages) ==
    /\ probe = NoProbe
    /\ apiConfigured \in configured
    /\ scanCache = << >>
    /\ stats = defaultStats
    /\ settings = defaultSettings
    /\ storage \in stores
    /\ loadResult = [pending |-> TRUE, result |-> storage]
    /\ tabUrl = [t \in 1..numTabs |-> InternalUrl]
    /\ activeTab = 1
    /\ badge = [t \in 1..numTabs |-> NoBadge]
    /\ scans = [s \in 1..numSlots |-> Idle]
    /\ reply = NoReply
    /\ lastRun = NoRun
    /\ notifCount = 0
    /\ scanCount = 0
    /\ clock = 0
    /\ page = [t \in 1..numPages |-> LoadedPage]

Messages(w) ==
    \/ \E url \in TabUrls : GetScanResult(url)
    \/ GetStats
    \/ GetSettings
    \/ \E payload \in SettingsPayloads : SaveSettings(payload)
    \/ SaveNoSettings
    \/ \E msg \in OtherMessages : UnknownMessage(msg)
    \/ \E tabId \in TabIds \cup {NoTabId, ClosedTab} : AnalyzeCurrentPage(w, tabId)
    \/ ManualScan(w)

\* The service worker of backend/extension as it is (API_BASE_URL = null).
Init == OrchestratorInit({FALSE}, InitialStores, NumTabs, MaxInflight, 0)

Next ==
    \/ StorageLoaded
    \/ \E t \in TabIds, url \in TabUrls : OnUpdated("backend", t, url)
    \/ \E t \in TabIds : OnActivated("backend", t)
    \/ Messages("backend")
    \/ \E s \in Slots : SendSettled(s)

Spec == Init /\ [][Next]_vars

\* The tabs and the scanPage invocations in flight where a remote endpoint
\* is called.
RemoteTabs == 1

RemoteInflight == 1

\* The service worker of backend/extension with API_BASE_URL set.
RemoteInit ==
    OrchestratorInit({TRUE}, InitialStores, RemoteTabs, RemoteInflight, 0)

RemoteNext ==
    \/ StorageLoaded
    \/ \E t \in TabIds, url \in TabUrls : OnUpdated("backend", t, url)
    \/ \E t \in TabIds : OnActivated("backend", t)
    \/ Messages("backend")
    \/ \E s \in Slots : FetchSettled("backend", s)
    \/ \E s \in Slots : JsonSettled("backend", s)
    \/ \E s \in Slots : SendSettled(s)

RemoteSpec == RemoteInit /\ [][RemoteNext]_vars

\* The service worker of frontend/public/extension.
PublicInit ==
    OrchestratorInit({TRUE}, InitialStores, RemoteTabs, RemoteInflight, 0)

PublicNext ==
    \/ StorageLoaded
    \/ \E t \in TabIds, url \in TabUrls : OnUpdated("public", t, url)
    \/ \E t \in TabIds : OnActivated("public", t)
    \/ Messages("public")
    \/ \E s \in Slots : FetchSettled("public", s)
    \/ \E s \in Slots : JsonSettled("public", s)
    \/ \E s \in Slots : SendSettled(s)

PublicSpec == PublicInit /\ [][PublicNext]_vars

\* The service worker of backend/extension as it is, with one tab and the
\* content script of that tab.
PageTabs == 1

PageInit == OrchestratorInit({FALSE}, {<< >>}, PageTabs, RemoteInflight, PageTabs)

PageNext ==
    \/ StorageLoaded
    \/ \E t \in TabIds, url \in TabUrls : OnUpdated("backend", t, url)
    \/ \E t \in TabIds : OnActivated("backend", t)
    \/ Messages("backend")
    \/ \E s \in Slots : SendSettled(s)
    \/ \E t \in DOMAIN page, msg \in ContentMessages : ContentMessage(t, msg)
    \/ \E t \in DOMAIN page : PageLoading(t)
    \/ \E t \in DOMAIN page : DomContentLoaded(t)
    \/ \E t \in DOMAIN page, e \in 1..MaxWarnings :
          e <= Len(page[t].elems) /\ HideTimer(t, e)
    \/ \E t \in DOMAIN page, e \in 1..MaxWarnings :
          e <= Len(page[t].elems) /\ FadeTimer(t, e)
    \/ \E t \in DOMAIN page, e \in 1..MaxWarnings :
          e <= Len(page[t].elems) /\ CloseClick(t, e)

PageSpec == PageInit /\ [][PageNext]_vars

SettingsTabs == 1

\* Settings payloads that carry a risk threshold (in hundredths): one with a
\* second field, one far above 1.0, one of 0.
ThresholdPayloads ==
    { [riskThreshold |-> 50, notificationsEnabled |-> FALSE],
      [riskThreshold |-> 500],
      [riskThreshold |-> 0, mfaEnabled |-> TRUE] }

\* The service worker of backend/extension as it is, with one tab, sent
\* SAVE_SETTINGS with the payloads above as well.
SettingsInit ==
    OrchestratorInit({FALSE}, InitialStores, SettingsTabs, SettingsTabs, 0)

SettingsNext ==
    \/ StorageLoaded
    \/ \E t \in TabIds, url \in TabUrls : OnUpdated("backend", t, url)
    \/ \E t \in TabIds : OnActivated("backend", t)
    \/ Messages("backend")
    \/ \E payload \in ThresholdPayloads : SaveSettings(payload)
    \/ \E s \in Slots : SendSettled(s)

SettingsSpec == SettingsInit /\ [][SettingsNext]_vars

\* CACHE_DURATION = 5 * 60 * 1000, in minutes
CacheDuration == 5

\* The minutes the clock runs for.
MaxClock == 6

TimedTabs == 1

\* A minute passes: new Date() reads a later time from now on.
Tick ==
    /\ clock < MaxClock
    /\ clock' = clock + 1
    /\ reply' = NoReply
    /\ lastRun' = NoRun
    /\ UNCHANGED <<probe, apiConfigured, scanCache, stats, settings, storage,
                   loadResult, tabUrl, activeTab, badge, scans, notifCount,
                   scanCount, page>>

\* The service worker of backend/extension as it is, with one tab and an
\* empty storage, while time passes and the popup asks for scans and results.
TimedInit == OrchestratorInit({FALSE}, {<< >>}, TimedTabs, TimedTabs, 0)

TimedNext ==
    \/ StorageLoaded
    \/ \E t \in TabIds, url \in TabUrls : OnUpdated("backend", t, url)
    \/ \E t \in TabIds : OnActivated("backend", t)
    \/ \E url \in TabUrls : GetScanResult(url)
    \/ \E tabId \in TabIds : AnalyzeCurrentPage("backend", tabId)
    \/ ManualScan("backend")
    \/ \E s \in Slots : SendSettled(s)
    \/ Tick

TimedSpec == TimedInit /\ [][TimedNext]_vars

RaceTabs == 1

RaceInflight == 2

\* The service worker of frontend/public/extension with one tab, an empty
\* storage and two scanPage invocations that may be in flight at once.
RaceInit == OrchestratorInit({TRUE}, {<< >>}, RaceTabs, RaceInflight, 0)

RaceNext ==
    \/ StorageLoaded
    \/ \E t \in TabIds, url \in TabUrls : OnUpdated("public", t, url)
    \/ \E t \in TabIds : OnActivated("public", t)
    \/ \E url \in TabUrls : GetScanResult(url)
    \/ \E s \in Slots : FetchSettled("public", s)
    \/ \E s \in Slots : JsonSettled("public", s)
    \/ \E s \in Slots : SendSettled(s)

RaceSpec == RaceInit /\ [][RaceNext]_vars

\* The pages the tab loads where progress is checked: a safe one, an unsafe
\* one and an internal one.
LiveUrls == {SafeUrl, HighUrl, InternalUrl}

LiveTabs == 1

LiveInflight == 1

\* The service worker of backend/extension with API_BASE_URL set, one tab
\* and an empty storage, receiving the messages of the popup.
LiveInit == OrchestratorInit({TRUE}, {<< >>}, LiveTabs, LiveInflight, 0)

LiveNext ==
    \/ StorageLoaded
    \/ \E t \in TabIds, url \in LiveUrls : OnUpdated("backend", t, url)
    \/ \E url \in LiveUrls : GetScanResult(url)
    \/ GetStats
    \/ GetSettings
    \/ SaveNoSettings
    \/ \E msg \in OtherMessages : UnknownMessage(msg)
    \/ \E tabId \in TabIds \cup {NoTabId, ClosedTab} :
          AnalyzeCurrentPage("backend", tabId)
    \/ ManualScan("backend")
    \/ \E s \in Slots : FetchSettled("backend", s)
    \/ \E s \in Slots : JsonSettled("backend", s)
    \/ \E s \in Slots : SendSettled(s)

\* Every promise scanPage awaits settles: the fetch at the latest when its
\* 10 s timer aborts it, response.json() when the body has arrived, and
\* chrome.tabs.sendMessage with the receiver's response or a rejection.
LiveSpec ==
    /\ LiveInit
    /\ [][LiveNext]_vars
    /\ WF_vars(\E s \in Slots : FetchSettled("backend", s))
    /\ WF_vars(\E s \in Slots : JsonSettled("backend", s))
    /\ WF_vars(\E s \in Slots : SendSettled(s))

IsolationTabs == 2

IsolationInflight == 1

\* The service worker of frontend/public/extension with two tabs and an
\* empty storage, driven by the tab events alone.
IsolationInit ==
    OrchestratorInit({TRUE}, {<< >>}, IsolationTabs, IsolationInflight, 0)

IsolationNext ==
    \/ StorageLoaded
    \/ \E t \in TabIds, url \in TabUrls : OnUpdated("public", t, url)
    \/ \E t \in TabIds : OnActivated("public", t)
    \/ \E s \in Slots : FetchSettled("public", s)
    \/ \E s \in Slots : JsonSettled("public", s)
    \/ \E s \in Slots : SendSettled(s)

IsolationSpec == IsolationInit /\ [][IsolationNext]_vars

\* The scorers applied to each URL of Urls.
ScorerInit ==
    /\ probe \in {[fn |-> "none", url |-> u] : u \in Urls}
    /\ apiConfigured = FALSE
    /\ scanCache = << >>
    /\ stats = defaultStats
    /\ settings = defaultSettings
    /\ storage = << >>
    /\ loadResult = [pending |-> FALSE, result |-> << >>]
    /\ tabUrl = [t \in 1..NumTabs |-> InternalUrl]
    /\ activeTab = 1
    /\ badge = [t \in 1..NumTabs |-> NoBadge]
    /\ scans = [s \in 1..MaxInflight |-> Idle]
    /\ reply = NoReply
    /\ lastRun = NoRun
    /\ notifCount = 0
    /\ scanCount = 0
    /\ clock = 0
    /\ page = << >>

ScoreOffline ==
    /\ probe.fn = "none"
    /\ probe' = [fn |-> "analyzeUrlOffline", url |-> probe.url,
                 out |-> analyzeUrlOffline(probe.url, clock)]
    /\ UNCHANGED orchVars

ScoreRoute ==
    /\ probe.fn = "none"
    /\ probe' = [fn |-> "analyzeUrl", url |-> probe.url,
                 out |-> analyzeUrl(probe.url, clock)]
    /\ UNCHANGED orchVars

ScorerNext == ScoreOffline \/ ScoreRoute

ScorerSpec == ScorerInit /\ [][ScorerNext]_vars

----------------------------------------------------------------------------
(* Properties                                                              *)

\* C1: every assessment analyzeUrlOffline and analyzeUrl return, for every
\* URL string, has a risk_score from 0 to 1 (0 to 100 hundredths).
ScoreInUnitInterval ==
    probe.fn # "none" => probe.out.risk_score \in 0..MaxScore

\* A URL that fires nine keywords and the IP check: the sum 1.65 is clamped.
ScoreClampedReached ==
    /\ probe.fn = "analyzeUrlOffline"
    /\ Len(probe.out.indicators) >= 10
    /\ probe.out.risk_score = MaxScore

\* C2: in every assessment the scorers return, is_safe is true exactly when
\* risk_score is below 0.5, whichever indicators fired.
SafeIffBelowUnsafe ==
    probe.fn # "none" =>
        (probe.out.is_safe <=> probe.out.risk_score < UnsafeScore)

\* The IP check and the subdomain check alone: a score of exactly 0.5,
\* which is not safe.
ScoreAtUnsafeReached ==
    /\ probe.fn = "analyzeUrlOffline"
    /\ probe.out.risk_score = UnsafeScore
    /\ Len(probe.out.indicators) = 2
    /\ ~probe.out.is_safe

\* C3: in the backend worker with API_BASE_URL set, when the fetch is
\* aborted by the timer, throws or answers with a non-2xx status, scanPage
\* goes on with the assessment of analyzeUrlOffline (source 'offline'):
\* pagesScanned grows by one, the assessment is cached under the URL and the
\* tab's badge is set from it; scanPage does not end in its catch (error).
FallbackOnRemoteFailure ==
    [][lastRun'.via \in FetchFailures =>
          LET local == offlineResult(lastRun'.url, clock)
              cached == MapGet(scanCache', lastRun'.url)
          IN  /\ lastRun'.path \in {"scored", "send"}
              /\ cached = local
              /\ Has(cached, "source") /\ cached.source = "offline"
              /\ stats'.pagesScanned = stats.pagesScanned + 1
              /\ storage'.stats = stats'
              /\ badge'[lastRun'.tab] = updateBadge(local)]_vars

\* The remote answered with a non-2xx status for the IP-address URL: the
\* offline assessment (0.6) is cached and the tab's badge warns.
FallbackReached ==
    /\ lastRun.via = "status"
    /\ lastRun.url = HighUrl
    /\ lastRun.path = "send"
    /\ MapGet(scanCache, HighUrl) = offlineResult(HighUrl, clock)
    /\ badge[lastRun.tab].text = "!"

\* C4: in the worker under frontend/public, when the fetch answers with a
\* non-2xx status, is aborted or throws, scanPage produces and caches an
\* assessment of the URL and does not end in its catch (error).
PublicFallbackOnRemoteFailure ==
    [][lastRun'.via \in FetchFailures =>
          /\ lastRun'.path \in {"scored", "send"}
          /\ Truthy(MapGet(scanCache', lastRun'.url))]_vars

\* C5: a 2xx response whose body is not JSON, is JSON null or is an object
\* without is_safe and risk_score is handled as a failed fetch is: the cache
\* entry of the URL and the change of the stats are those of
\* analyzeUrlOffline for the URL.
MalformedBodyFallsBack ==
    [][lastRun'.via \in {"unparseable", "null", "object"} =>
          LET local == offlineResult(lastRun'.url, clock)
          IN  /\ MapGet(scanCache', lastRun'.url) = local
              /\ stats'.pagesScanned = stats.pagesScanned + 1
              /\ stats'.threatsBlocked =
                    stats.threatsBlocked + (IF local.is_safe THEN 0 ELSE 1)]_vars

\* C6: a URL with an internal-browser scheme is never scanned, whatever
\* starts the scan: it never becomes a key of the cache and no scan of it
\* increments pagesScanned.
InternalNeverScanned ==
    [][/\ \A u \in TabUrls : ~shouldScanUrl(u) => u \notin DOMAIN scanCache'
       /\ lastRun'.path # "none" /\ stats'.pagesScanned > stats.pagesScanned
             => shouldScanUrl(lastRun'.url)]_vars

\* C7: GET_SCAN_RESULT(url) is answered {success: true, result} with the
\* cached assessment when the URL string is a key of the cache and
\* {success: false} otherwise; handling it starts no scan and leaves the
\* cache, the stats, the settings and every badge as they are.
GetScanResultAnswers ==
    [][("type" \in DOMAIN reply'.msg /\ reply'.msg.type = "GET_SCAN_RESULT") =>
          /\ IF reply'.msg.url \in DOMAIN scanCache
             THEN reply'.resp = [success |-> TRUE,
                                 result |-> scanCache[reply'.msg.url]]
             ELSE ~reply'.resp.success /\ "result" \notin DOMAIN reply'.resp
          /\ lastRun' = NoRun
          /\ UNCHANGED <<scanCache, stats, settings, badge, scans, scanCount,
                         storage, notifCount>>]_vars

\* GET_SCAN_RESULT answered with the cached assessment of the IP-address URL
\* while the cache holds no entry for another URL.
GetScanResultHitReached ==
    /\ "type" \in DOMAIN reply.msg
    /\ reply.msg.type = "GET_SCAN_RESULT"
    /\ reply.msg.url = HighUrl
    /\ reply.resp.success
    /\ reply.resp.result.risk_score >= HighScore
    /\ SafeUrl \notin DOMAIN scanCache

\* C8: after a scan of a URL is scored, GET_SCAN_RESULT for that URL string
\* answers with exactly the assessment the scan wrote, and the entry of a
\* URL string changes only when a scan of that same string is scored: scans
\* of strings that differ in case, a trailing slash or a query leave it.
CacheRoundTrip ==
    [][/\ lastRun'.path \in {"scored", "send"} =>
             scanResultResponse(scanCache', lastRun'.url) =
                [success |-> TRUE,
                 result |-> offlineResult(lastRun'.url, clock)]
       /\ \A u \in TabUrls :
             MapGet(scanCache', u) # MapGet(scanCache, u) =>
                lastRun'.path \in {"scored", "send"} /\ lastRun'.url = u]_vars

\* The URL was scanned, then the same URL with a trailing slash: the cache
\* holds an entry for each, each the assessment of its own string.
CacheKeysExactReached ==
    /\ lastRun.path = "scored"
    /\ lastRun.url = SlashUrl
    /\ MapGet(scanCache, SafeUrl) = offlineResult(SafeUrl, clock)
    /\ MapGet(scanCache, SlashUrl) = offlineResult(SlashUrl, clock)
    /\ scanCache[SafeUrl] # scanCache[SlashUrl]

\* C9: whenever MANUAL_SCAN is answered {success: true}, a scan of the
\* active tab's URL ran for the request and the cache holds an assessment of
\* that URL.
ManualScanSuccessMeansScanned ==
    ("type" \in DOMAIN reply.msg /\ reply.msg.type = "MANUAL_SCAN"
        /\ reply.resp.success)
    => /\ lastRun.path \in {"scored", "done"}
       /\ lastRun.url \in DOMAIN scanCache

\* C10: a message whose type the service worker does not handle, or that
\* has no type, is answered {success: false, error: 'Unknown message type'}
\* and leaves the cache, the stats and the settings as they are; the content
\* script answers in the same way every type other than SHOW_WARNING.
UnknownTypeAnswered ==
    [][LET msg == reply'.msg
           unknown == [success |-> FALSE, error |-> "Unknown message type"]
       IN  IF "from" \in DOMAIN reply'
           THEN ~("type" \in DOMAIN msg /\ msg.type = "SHOW_WARNING")
                   => reply'.resp = unknown
           ELSE ~("type" \in DOMAIN msg /\ msg.type \in HandledTypes \cup {"none"})
                   => /\ reply'.resp = unknown
                      /\ UNCHANGED <<scanCache, stats, settings>>]_vars

\* The content script, a warning in its document, answered a message of a
\* type the service worker handles and it does not.
UnknownTypeReached ==
    /\ "from" \in DOMAIN reply
    /\ reply.msg = [type |-> "GET_STATS"]
    /\ ~reply.resp.success
    /\ Len(page[1].dom) > 0
    /\ scanCache # << >>

\* C11: SAVE_SETTINGS with a settings payload merges it: each field of the
\* payload has the value provided, every other field of the settings keeps
\* its value, the merged object is what storage holds and what GET_SETTINGS
\* returns, and the response is {success: true}; SAVE_SETTINGS without a
\* payload is answered the same and changes neither settings nor storage.
SaveSettingsMerges ==
    [][/\ ("type" \in DOMAIN reply'.msg /\ reply'.msg.type = "SAVE_SETTINGS") =>
             /\ reply'.resp = [success |-> TRUE]
             /\ IF "settings" \in DOMAIN reply'.msg
                THEN LET partial == reply'.msg.settings
                     IN  /\ \A f \in DOMAIN partial :
                               f \in DOMAIN settings' /\ settings'[f] = partial[f]
                         /\ \A f \in DOMAIN settings \ DOMAIN partial :
                               f \in DOMAIN settings' /\ settings'[f] = settings[f]
                         /\ DOMAIN settings' = DOMAIN settings \cup DOMAIN partial
                         /\ MapGet(storage', "settings") = settings'
                ELSE UNCHANGED <<settings, storage>>
       /\ ("type" \in DOMAIN reply'.msg /\ reply'.msg.type = "GET_SETTINGS") =>
             reply'.resp = settings /\ UNCHANGED <<settings, storage>>]_vars

\* Protection was switched off, then a payload with a threshold and the
\* notification flag was merged: both provided fields are set and enabled
\* is still off, in the settings and in storage.
SettingsMergedReached ==
    /\ "type" \in DOMAIN reply.msg
    /\ reply.msg.type = "SAVE_SETTINGS"
    /\ "settings" \in DOMAIN reply.msg
    /\ "riskThreshold" \in DOMAIN reply.msg.settings
    /\ settings.riskThreshold = 50
    /\ ~settings.notificationsEnabled
    /\ ~settings.enabled
    /\ ~settings.mfaEnabled
    /\ storage.settings = settings

\* C12: in every reachable state settings.riskThreshold is from 0.1 to 1.0.
ThresholdInRange == settings.riskThreshold \in 10..100

\* C13: the counters pagesScanned, threatsBlocked and mfaTriggered of the
\* service worker never decrease, whatever the order of scans, messages and
\* the callback of the start-up storage read.
CountersNeverDecrease ==
    [][/\ stats'.pagesScanned >= stats.pagesScanned
       /\ stats'.threatsBlocked >= stats.threatsBlocked
       /\ stats'.mfaTriggered >= stats.mfaTriggered]_vars

\* C14: the badge updateBadge sets for an assessment of the scorer: a safe
\* assessment gets the check mark on green, a risk_score of 0.7 or more
\* '!!!' on red, a risk_score from 0.4 to below 0.7 '!' on orange.
BadgeFollowsMapping ==
    probe.fn # "none" =>
        LET shown == updateBadge(probe.out)
            riskScore == probe.out.risk_score
        IN  /\ probe.out.is_safe =>
                  shown.text = "check" /\ shown.color = "#4CAF50"
            /\ riskScore >= CriticalScore =>
                  shown.text = "!!!" /\ shown.color = "#F44336"
            /\ (riskScore >= WarnScore /\ riskScore < CriticalScore) =>
                  shown.text = "!" /\ shown.color = "#FF9800"

\* C15: when a scan is scored, chrome.notifications.create is called and
\* SHOW_WARNING with the assessment is sent to the scanned tab exactly when
\* the assessment is not safe and its risk_score is 0.4 or more; otherwise,
\* and in every other step, neither happens.
WarnsExactlyWhenUnsafe ==
    [][IF lastRun'.path \in {"scored", "send"}
       THEN LET result == MapGet(scanCache', lastRun'.url)
            IN  IF ~result.is_safe /\ result.risk_score >= WarnScore
                THEN /\ notifCount' = notifCount + 1
                     /\ lastRun'.path = "send"
                     /\ \E s \in Slots :
                           /\ scans[s].pc = "idle"
                           /\ scans'[s].pc = "send"
                           /\ scans'[s].tabId = lastRun'.tab
                           /\ scans'[s].result = result
                           /\ \A o \in Slots \ {s} : scans'[o] = scans[o]
                ELSE /\ notifCount' = notifCount
                     /\ lastRun'.path = "scored"
                     /\ scans' = scans
       ELSE /\ notifCount' = notifCount
            /\ \A s \in Slots : scans'[s].pc = "send" => scans'[s] = scans[s]]_vars

\* A safe assessment of 0.45 and an unsafe one of 0.6 were scored: one
\* notification, and SHOW_WARNING on its way to the tab of the unsafe one.
WarnedOnceReached ==
    /\ lastRun.path = "send"
    /\ lastRun.url = HighUrl
    /\ lastRun.tab = 2
    /\ MapGet(scanCache, QueryUrl) = offlineResult(QueryUrl, clock)
    /\ scanCache[QueryUrl].risk_score >= WarnScore
    /\ scanCount = 2
    /\ notifCount = 1

\* C16: when sending SHOW_WARNING to the tab fails, scanPage ends as it does
\* after a delivery: the cache entry of the URL, the stats, the stored stats
\* and every badge stay as the scan set them, nothing is sent again and
\* the error path is not taken.
BannerDeliveryBestEffort ==
    [][lastRun'.via = "undelivered" =>
          /\ lastRun'.path = "done"
          /\ UNCHANGED <<scanCache, stats, storage, badge, notifCount, scanCount>>
          /\ lastRun'.url \in DOMAIN scanCache
          /\ ~scanCache[lastRun'.url].is_safe
          /\ \E s \in Slots :
                /\ scans[s].pc = "send"
                /\ scans[s].url = lastRun'.url
                /\ scans' = [scans EXCEPT ![s] = Idle]]_vars

\* SHOW_WARNING for the IP-address URL was not delivered: the tab's badge
\* still warns, the entry is cached and both counters were incremented.
UndeliveredReached ==
    /\ lastRun.via = "undelivered"
    /\ lastRun.url = HighUrl
    /\ badge[lastRun.tab].text = "!"
    /\ MapGet(scanCache, HighUrl) = offlineResult(HighUrl, clock)
    /\ stats.threatsBlocked = 1
    /\ stats.pagesScanned = 1
    /\ storage.stats = stats
    /\ \A s \in Slots : scans[s].pc = "idle"

\* C17: a scanPage that ends on its error path leaves the scan cache as it
\* was when the scan started: neither the step that ends in catch (error)
\* nor the steps of that scan before it (the fetch, the reading of the body)
\* add or replace a cache entry.
ErrorLeavesCache ==
    [][lastRun'.path \in {"fetch", "json", "error"} =>
          scanCache' = scanCache]_vars

\* A scan of a cached URL ended on the error path: the entry is still the
\* assessment cached before.
ErrorAfterCachedReached ==
    /\ lastRun.path = "error"
    /\ lastRun.via = "status"
    /\ lastRun.url = HighUrl
    /\ MapGet(scanCache, HighUrl) = routeResult(HighUrl, clock)
    /\ stats.pagesScanned = 1
    /\ scanCount = 2

\* C18: a banner shown for a risk_score below 0.7 is removed by its timer
\* unless dismissed before: while it is in the document its timer is
\* pending; a banner shown for 0.7 or more leaves the document only by the
\* click on its close button, by a later SHOW_WARNING that replaces it or
\* with the document, never by a timer.
BannerTimers ==
    [][\A t \in DOMAIN page :
          LET old == page[t]
              new == page'[t]
          IN  /\ \A n \in 1..Len(new.dom) :
                    new.elems[new.dom[n]].score < CriticalScore =>
                       new.elems[new.dom[n]].timer # "none"
              /\ \A e \in 1..Len(old.elems) :
                    ( /\ old.elems[e].score >= CriticalScore
                      /\ InDom(old, e)
                      /\ Len(new.elems) = Len(old.elems)
                      /\ ~InDom(new, e) )
                    => new.elems = old.elems]_vars

\* C19 as stated: analyzeUrlOffline('https://secure-login-update.tk') has
\* one keyword indicator and the suspicious-TLD indicator, risk_score 0.40
\* and risk level medium.
SecureLoginUpdateTkScoresMedium ==
    (probe.fn = "analyzeUrlOffline" /\ probe.url = SecureLoginUpdateTk) =>
        /\ probe.out.risk_score = KeywordWeight + TldWeight
        /\ probe.out.risk_level = "medium"
        /\ probe.out.indicators =
              << "Suspicious keyword detected", "Suspicious top-level domain" >>

\* C19, amended: analyzeUrlOffline('https://secure-login-update.tk') has
\* three keyword indicators (secure, login, update) and the suspicious-TLD
\* indicator, risk_score 0.70 (3 x 0.15 + 0.25, below the clamp), risk level
\* critical, and is not safe.
SecureLoginUpdateTkScoresCritical ==
    (probe.fn = "analyzeUrlOffline" /\ probe.url = SecureLoginUpdateTk) =>
        /\ probe.out.risk_score = 3 * KeywordWeight + TldWeight
        /\ probe.out.risk_score < MaxScore
        /\ probe.out.risk_level = "critical"
        /\ ~probe.out.is_safe
        /\ probe.out.indicators =
              << "Suspicious keyword detected", "Suspicious keyword detected",
                 "Suspicious keyword detected", "Suspicious top-level domain" >>

\* analyzeUrlOffline returned for https://secure-login-update.tk.
SecureLoginUpdateTkReached ==
    /\ probe.fn = "analyzeUrlOffline"
    /\ probe.url = SecureLoginUpdateTk
    /\ probe.out.url = SecureLoginUpdateTk
    /\ Len(probe.out.indicators) = 4
    /\ probe.out.risk_score >= CriticalScore

\* C20: analyzeUrlOffline('http://192.168.0.1/login'), whose signals are the
\* IPv4 host and one keyword, has the keyword and the IP-address indicator,
\* risk_score 0.45, risk level medium and is safe; the four labels of the
\* host do not fire the subdomain check.
IpLoginScoresMedium ==
    (probe.fn = "analyzeUrlOffline" /\ probe.url = IpLoginUrl) =>
        /\ probe.out.risk_score = IpWeight + KeywordWeight
        /\ probe.out.risk_level = "medium"
        /\ probe.out.is_safe
        /\ subdomainsOf(probe.url) = MaxSubdomains
        /\ probe.out.indicators =
              << "Suspicious keyword detected",
                 "URL uses IP address instead of domain name" >>

\* analyzeUrlOffline returned for http://192.168.0.1/login.
IpLoginReached ==
    /\ probe.fn = "analyzeUrlOffline"
    /\ probe.url = IpLoginUrl
    /\ probe.out.url = IpLoginUrl
    /\ Len(probe.out.indicators) = 2
    /\ probe.out.risk_score = 45

\* C21: analyzeUrlOffline returns a non-empty indicators list for every URL,
\* and the list holds 'No immediate threats detected' exactly when none of
\* the four checks fired; then it is the only indicator, risk_score is 0,
\* the risk level is low and is_safe is true.  https://example.com is such
\* a URL.
NoThreatsWhenNothingFires ==
    probe.fn = "analyzeUrlOffline" =>
        LET url == probe.url
            out == probe.out
            fallback == "No immediate threats detected"
            fired ==
                \/ \E n \in 1..Len(suspiciousPatterns) :
                      RegexTest(suspiciousPatterns[n], url)
                \/ RegexTest(ipPattern, url)
                \/ subdomainsOf(url) > MaxSubdomains
                \/ RegexTest(tldPattern, url)
        IN  /\ Len(out.indicators) > 0
            /\ (\E i \in 1..Len(out.indicators) : out.indicators[i] = fallback)
                  <=> ~fired
            /\ ~fired => /\ out.indicators = << fallback >>
                         /\ out.risk_score = 0
                         /\ out.risk_level = "low"
                         /\ out.is_safe
            /\ url = ExampleCom => ~fired

\* analyzeUrlOffline returned for https://example.com.
ExampleComReached ==
    /\ probe.fn = "analyzeUrlOffline"
    /\ probe.url = ExampleCom
    /\ probe.out.url = ExampleCom
    /\ probe.out.indicators = << "No immediate threats detected" >>

\* C22: for every http(s) URL whose host ends in one of the top-level
\* domains tk, ml, ga, cf, gq, whatever follows the host (nothing, a slash,
\* a path, a port, a query), analyzeUrlOffline pushes 'Suspicious top-level
\* domain' and the risk_score is at least 0.25.
TldCheckFollowsHost ==
    probe.fn = "analyzeUrlOffline" =>
        \A s \in {<<"h", "t", "t", "p", "s", ":", "/", "/">>, <<"h", "t", "t", "p", ":", "/", "/">>, <<"H", "T", "T", "P", "S", ":", "/", "/">>} :
          \A h \in Hosts : \A t \in Tails :
            (probe.url = s \o h \o t /\ RegexTest(tldPattern, h)) =>
                /\ \E i \in 1..Len(probe.out.indicators) :
                      probe.out.indicators[i] = "Suspicious top-level domain"
                /\ probe.out.risk_score >= TldWeight

\* C23: both scorers push 'URL uses IP address instead of domain name' for
\* an http(s) URL exactly when its host is a literal IPv4 address; a URL
\* with a domain-name host never gets it, whatever its path or query holds.
IpCheckFollowsHost ==
    probe.fn # "none" =>
        \A s \in {<<"h", "t", "t", "p", "s", ":", "/", "/">>, <<"h", "t", "t", "p", ":", "/", "/">>, <<"H", "T", "T", "P", "S", ":", "/", "/">>} :
          \A h \in Hosts : \A t \in Tails :
            probe.url = s \o h \o t =>
                ((\E i \in 1..Len(probe.out.indicators) :
                     probe.out.indicators[i] =
                         "URL uses IP address instead of domain name")
                 <=> RegexTest(ipPattern, h))

\* C24: the risk_level of both scorers is decided by the risk_score alone:
\* below 0.3 low, from 0.3 to below 0.5 medium, from 0.5 to below 0.7 high,
\* 0.7 and more critical; is_safe is false exactly for high and critical.
LevelFollowsScore ==
    probe.fn # "none" =>
        LET score == probe.out.risk_score
            level == probe.out.risk_level
        IN  /\ score < MediumScore => level = "low"
            /\ (score >= MediumScore /\ score < HighScore) => level = "medium"
            /\ (score >= HighScore /\ score < CriticalScore) => level = "high"
            /\ score >= CriticalScore => level = "critical"
            /\ ~probe.out.is_safe <=> level \in {"high", "critical"}

\* A scorer returned a score that sits on a threshold: 0.3, 0.5 or 0.7.
LevelAtThresholdReached ==
    /\ probe.fn # "none"
    /\ probe.out.risk_score \in {MediumScore, HighScore, CriticalScore}
    /\ probe.out.risk_level \in {"medium", "high", "critical"}

\* C25: the risk_score of analyzeUrlOffline is min(1, 0.15 k + 0.30 ip +
\* 0.20 sub + 0.25 tld), k being the number of the ten keyword patterns that
\* match the URL and ip, sub, tld being 1 when that check fires and 0
\* otherwise; when k + ip + sub + tld is positive it is the number of
\* indicators.
ScoreIsClampedWeightedSum ==
    probe.fn = "analyzeUrlOffline" =>
        LET url == probe.url
            One(fires) == IF fires THEN 1 ELSE 0
            k == Cardinality({n \in 1..Len(suspiciousPatterns) :
                                 RegexTest(suspiciousPatterns[n], url)})
            ip == One(RegexTest(ipPattern, url))
            sub == One(subdomainsOf(url) > MaxSubdomains)
            tld == One(RegexTest(tldPattern, url))
            sum == KeywordWeight * k + IpWeight * ip + SubdomainWeight * sub
                   + TldWeight * tld
        IN  /\ Len(suspiciousPatterns) = 10
            /\ probe.out.risk_score = IF sum < MaxScore THEN sum ELSE MaxScore
            /\ k + ip + sub + tld > 0 =>
                  Len(probe.out.indicators) = k + ip + sub + tld

\* analyzeUrlOffline returned for https://secure-login-update.tk/login, in
\* which login occurs twice: three keyword indicators, risk_score 0.45.
KeywordTwiceReached ==
    /\ probe.fn = "analyzeUrlOffline"
    /\ probe.url = SecureLoginUpdateTk \o <<"/", "l", "o", "g", "i", "n">>
    /\ probe.out.risk_score = 3 * KeywordWeight
    /\ Len(probe.out.indicators) = 3

\* C26: when scanPage scores a URL whose cache entry is younger than the
\* 5-minute window, GET_SCAN_RESULT for the URL answers after the scan what
\* it answered before it.
RescanKeepsCachedResult ==
    [][(/\ lastRun'.path \in {"scored", "send"}
        /\ Truthy(MapGet(scanCache, lastRun'.url))
        /\ clock - MapGet(scanCache, lastRun'.url).timestamp < CacheDuration)
       => scanResultResponse(scanCache', lastRun'.url)
              = scanResultResponse(scanCache, lastRun'.url)]_vars

\* C30: ANALYZE_CURRENT_PAGE for a tab whose URL has a cache entry older
\* than the 5-minute window starts a scan of the URL and does not answer
\* with that entry.
StaleEntryRescanned ==
    [][\A tabId \in TabIds :
          LET cached == MapGet(scanCache, tabUrl[tabId])
          IN  (/\ reply'.msg = [type |-> "ANALYZE_CURRENT_PAGE", tabId |-> tabId]
               /\ Truthy(cached)
               /\ clock - cached.timestamp > CacheDuration)
              => /\ scanCount' = scanCount + 1
                 /\ reply'.resp # [success |-> TRUE, data |-> cached]]_vars

\* C27: with up to two scans of the public worker in flight at once, every
\* scan that completes with a result writes that result as the cache entry
\* of its URL, whatever the entry was and whichever scan started first, and
\* no other step changes the entry: after all scans of a URL have finished
\* its entry is the result of the scan that completed last.
LastCompletedScanWins ==
    [][\A u \in TabUrls :
          LET completed == lastRun'.url = u /\ lastRun'.path \in {"scored", "send"}
              result == IF lastRun'.via = "assessment" THEN routeResult(u, clock)
                        ELSE IF lastRun'.via = "object"
                        THEN [error |-> "Internal server error"]
                        ELSE JsFalse
          IN  IF completed
              THEN MapGet(scanCache', u) = result
              ELSE MapGet(scanCache', u) = MapGet(scanCache, u)]_vars

\* Two scans of one URL were in flight at once and the one started second
\* has completed first: its result is the cache entry while the other is
\* still waiting for its response.
LaterScanFinishedFirstReached ==
    \E u \in TabUrls :
        /\ scanCount >= 2
        /\ scans[1].pc \in {"fetch", "json"}
        /\ scans[1].url = u
        /\ scans[2].pc = "idle"
        /\ lastRun.url = u
        /\ lastRun.path = "scored"
        /\ Truthy(MapGet(scanCache, u))

\* C29: once no scan of the public worker is in flight, the badge of a tab
\* whose last navigation went to a URL that is scanned is one that
\* updateBadge sets for an outcome of scanning that URL: for the endpoint's
\* assessment of it, for another body of a 2xx response, or for an error.
BadgeFollowsLastNavigation ==
    \A t \in TabIds :
        ((\A s \in Slots : scans[s].pc = "idle") /\ shouldScanUrl(tabUrl[t]))
        => badge[t] \in {updateBadge(r) :
                            r \in {routeResult(tabUrl[t], clock),
                                   [error |-> "Internal server error"],
                                   JsFalse, errorResult}}

\* C28: the step in which scanPage has its result increments pagesScanned,
\* increments threatsBlocked when the result is not safe, hands the stats to
\* storage, writes the cache entry and sets the badge, all at once, and
\* creates the notification; the SHOW_WARNING send is pending after it and
\* settles in a later step that changes none of these.  No other step
\* writes the cache, so whoever sees the new entry sees the counters
\* incremented.
ScoredEffectsTogether ==
    [][/\ lastRun'.path \in {"scored", "send"} =>
             LET url == lastRun'.url
                 result == MapGet(scanCache', url)
             IN  /\ result = offlineResult(url, clock)
                 /\ stats'.pagesScanned = stats.pagesScanned + 1
                 /\ stats'.threatsBlocked =
                       stats.threatsBlocked + (IF NotSafe(result) THEN 1 ELSE 0)
                 /\ storage' = MapSet(storage, "stats", stats')
                 /\ badge'[lastRun'.tab] = updateBadge(result)
                 /\ lastRun'.path = "send" =>
                       /\ notifCount' = notifCount + 1
                       /\ \E s \in Slots : /\ scans[s].pc = "idle"
                                           /\ scans'[s].pc = "send"
                                           /\ scans'[s].result = result
       /\ scanCache' # scanCache => lastRun'.path \in {"scored", "send"}
       /\ lastRun'.path = "done" =>
             UNCHANGED <<stats, storage, scanCache, badge, notifCount>>]_vars

\* A scan of an unsafe URL has counted, cached and set the badge, and its
\* SHOW_WARNING send is pending.
ScoredWithSendPendingReached ==
    /\ lastRun.path = "send"
    /\ stats.threatsBlocked >= 1
    /\ Truthy(MapGet(scanCache, lastRun.url))
    /\ ~MapGet(scanCache, lastRun.url).is_safe
    /\ "stats" \in DOMAIN storage
    /\ storage.stats = stats
    /\ \E s \in Slots : scans[s].pc = "send" /\ scans[s].url = lastRun.url

\* C31: for every assessment of the scorers, each of the two popups shows
\* 'Protected' exactly when updateBadge sets the check mark for the same
\* assessment, and 'Threat Detected' exactly when it sets '!' or '!!!'.
PopupAgreesWithBadge ==
    probe.fn # "none" =>
        \A shown \in {displayResult(probe.out), displayResultBuckets(probe.out)} :
            LET text == updateBadge(probe.out).text
            IN  /\ shown.status = "Protected" <=> text = "check"
                /\ shown.status = "Threat Detected" <=> text \in {"!", "!!!"}

\* C38: for an assessment of analyzeUrlOffline the popup of
\* extension/popup shows the critical, high, medium or low label when the
\* risk_level is critical, high, medium or low, and the SAFE label only
\* for a safe assessment.
LabelAgreesWithLevel ==
    probe.fn = "analyzeUrlOffline" =>
        LET label == displayResult(probe.out).riskLevel
        IN  /\ probe.out.risk_level \in {"critical", "high", "medium", "low"}
            /\ label.class \in {"critical", "high", "medium", "low"}
                  => label.class = probe.out.risk_level
            /\ label.class # "safe"
            /\ label.class = "safe" => probe.out.is_safe

\* C32: every call of scanPage made while settings.enabled is false, from
\* whichever trigger, leaves the stats, the cache, the storage, the badges,
\* the notifications and the pending SHOW_WARNING sends as they are; every
\* call made while it is true scans, also after SAVE_SETTINGS has set it
\* back to true.
DisabledScanIsNoOp ==
    [][scanCount' # scanCount =>
          IF settings.enabled
          THEN lastRun'.path \in {"scored", "send", "error"}
          ELSE /\ lastRun'.path = "skipped"
               /\ UNCHANGED <<stats, scanCache, storage, badge, notifCount,
                              scans, page>>]_vars

\* One call of scanPage was skipped, SAVE_SETTINGS has set enabled to true,
\* and the next call has scanned.
ScanResumedReached ==
    /\ ~loadResult.pending
    /\ scanCount = 2
    /\ stats.pagesScanned = 1
    /\ lastRun.path \in {"scored", "send"}
    /\ settings.enabled
    /\ "settings" \in DOMAIN storage
    /\ storage.settings.enabled

\* C33: what a scan does is decided by the URL, the tab and the scan state
\* alone, whatever settings.notificationsEnabled, settings.riskThreshold
\* and settings.mfaEnabled are: the cache entry, the stats, the badge, the
\* notification and the SHOW_WARNING send that follow are those of the
\* scorer's assessment with the fixed 0.4 and 0.5 thresholds.  In
\* particular the notification is created when notificationsEnabled is
\* false.
ScanIgnoresOtherSettings ==
    [][(scanCount' # scanCount /\ settings.enabled) =>
          LET url == lastRun'.url
              result == offlineResult(url, clock)
              warn == ~result.is_safe /\ result.risk_score >= WarnScore
          IN  /\ scanCache' = MapSet(scanCache, url, result)
              /\ stats' = [stats EXCEPT
                              !.pagesScanned = @ + 1,
                              !.threatsBlocked = @ + IF result.is_safe THEN 0 ELSE 1]
              /\ badge' = [badge EXCEPT ![lastRun'.tab] = updateBadge(result)]
              /\ notifCount' = notifCount + IF warn THEN 1 ELSE 0
              /\ warn <=> \E s \in Slots : /\ scans[s].pc = "idle"
                                          /\ scans'[s].pc = "send"
                                          /\ scans'[s].result = result]_vars

\* A notification was created and SHOW_WARNING is about to be sent while
\* notificationsEnabled is false and the risk threshold is not the default.
NotifiedWhileDisabledReached ==
    /\ lastRun.path = "send"
    /\ notifCount >= 1
    /\ ~settings.notificationsEnabled
    /\ settings.riskThreshold # ThresholdDefault
    /\ \E s \in Slots : scans[s].pc = "send"

\* C34: pagesScanned is the persisted count plus the scans completed with
\* an assessment in this session: a scan that completes adds one, the
\* storage load callback adds the persisted count to what was counted so
\* far, and no other step changes it.
PagesScannedCountsScans ==
    [][LET completed == lastRun'.path \in {"scored", "send"}
           loaded == /\ loadResult.pending
                     /\ ~loadResult'.pending
                     /\ "stats" \in DOMAIN loadResult.result
       IN  stats'.pagesScanned =
              IF completed THEN stats.pagesScanned + 1
              ELSE IF loaded
              THEN loadResult.result.stats.pagesScanned + stats.pagesScanned
              ELSE stats.pagesScanned]_vars

\* C35: threatsBlocked never exceeds pagesScanned, in memory and in what is
\* persisted, whichever tabs scan and whenever the storage load callback
\* runs (the stats in storage at startup satisfy it).
ThreatsWithinPages ==
    /\ \A store \in InitialStores :
          "stats" \in DOMAIN store
              => store.stats.threatsBlocked <= store.stats.pagesScanned
    /\ stats.threatsBlocked <= stats.pagesScanned
    /\ "stats" \in DOMAIN storage
          => storage.stats.threatsBlocked <= storage.stats.pagesScanned

\* The second tab has completed an unsafe scan after the stats were loaded
\* from storage: both counters went up from the persisted ones.
ThreatCountedAfterLoadReached ==
    /\ ~loadResult.pending
    /\ lastRun.tab = 2
    /\ lastRun.path = "send"
    /\ stats.pagesScanned >= 3
    /\ stats.threatsBlocked >= 2

AtMostOneBanner ==
    \A t \in DOMAIN page : Len(page[t].dom) <= 1

\* C39: the step in which a scan of a tab ends in the error state leaves
\* the badge and title of every other tab, every cache entry, the stats and
\* the persisted stats as they were before the scan was started (starting a
\* scan changes none of them).
ErrorLeavesOthers ==
    [][/\ lastRun'.path = "error" =>
             /\ \A t \in TabIds \ {lastRun'.tab} : badge'[t] = badge[t]
             /\ scanCache' = scanCache
             /\ stats' = stats
             /\ storage' = storage
       /\ lastRun'.path = "fetch" =>
             UNCHANGED <<badge, scanCache, stats, storage>>]_vars
====
